---- MODULE Spec2Model ----
(***************************************************************************)
(* The shopping cart's CartProvider in its three implementations:          *)
(*   hybrid     (src/shopping-cart-hybrid/src/App.jsx): localStorage +     *)
(*              debounced IndexedDB + BroadcastChannel carrying items      *)
(*   IndexedDB  (src/unnamed/part_000): IndexedDB + bare BroadcastChannel  *)
(*   context    (src/unnamed/part_001): React state only                   *)
(* One browsing context (tab) is one element of Ctx.  React state is the   *)
(* variable items; what a handler created by the last render sees of it    *)
(* is rItems (its closure).  Render makes the two agree.                   *)
(***************************************************************************)
EXTENDS Integers, Sequences, FiniteSets, TLC

\* ---------------------------------------------------------------- bounds
NumCtx == 2
MaxId == 2
MaxOps == 2
MaxQtyArg == 2
MaxInitQty == 1
MaxCalls == 4

Ctx == 1..NumCtx
Ids == 1..MaxId

\* the product list of the context-only demo, one product more
Products == 1..(MaxId + 1)

\* ------------------------------------------------- JavaScript values
\* parseInt('') is NaN; JSON.stringify writes NaN as null.
NaN == -1000
Null == -1001

\* quantity < n in JavaScript: false for NaN, null converts to 0
LessThan(q, n) == q # NaN /\ (IF q = Null THEN 0 ELSE q) < n

\* item.quantity + 1 in JavaScript
PlusOne(q) == IF q = NaN THEN NaN ELSE IF q = Null THEN 1 ELSE q + 1

\* the values the quantity input hands to updateQuantity
QtyArgs == (0..MaxQtyArg) \cup {NaN}

Price(id) == CASE id = 1 -> 999 [] id = 2 -> 699 [] OTHER -> 199

Item(id, q) == [id |-> id, quantity |-> q]

\* items after setItems(undefined): not an array; no array of LineItems equals
\* it (product ids start at 1)
Undefined == <<Item(0, 0)>>

\* ------------------------------------------------- pure array helpers
RECURSIVE Total(_)
Total(s) ==
  IF s = <<>> THEN 0
  ELSE LET q == Head(s).quantity
           r == Total(Tail(s))
       IN IF q = NaN \/ r = NaN THEN NaN
          ELSE Price(Head(s).id) * (IF q = Null THEN 0 ELSE q) + r

\* prev.find(item => item.id === id): the index of the first match, 0 if none
Find(s, id) ==
  IF \E i \in DOMAIN s : s[i].id = id
  THEN CHOOSE i \in DOMAIN s : s[i].id = id /\ \A j \in 1..(i-1) : s[j].id # id
  ELSE 0

Has(s, id) == Find(s, id) # 0

\* prev.map(item => item.id === id ? { ...item, quantity: item.quantity + 1 } : item)
\* or [...prev, { ...product, quantity: 1 }]
AddTo(prev, id) ==
  IF Has(prev, id)
  THEN [i \in DOMAIN prev |->
          IF prev[i].id = id THEN Item(id, PlusOne(prev[i].quantity)) ELSE prev[i]]
  ELSE Append(prev, Item(id, 1))

\* prev.map(item => item.id === productId ? { ...item, quantity } : item)
SetQty(prev, id, q) ==
  [i \in DOMAIN prev |-> IF prev[i].id = id THEN Item(id, q) ELSE prev[i]]

\* prev.filter(item => item.id !== productId)
Without(prev, id) == SelectSeq(prev, LAMBDA it : it.id # id)

\* ------------------------------------------------- localStorage slot
LsAbsent == [k |-> "absent", v |-> <<>>]
LsMalformed == [k |-> "malformed", v |-> <<>>]

JSONStringify(s) ==
  [k |-> "json",
   v |-> [i \in DOMAIN s |->
            Item(s[i].id, IF s[i].quantity = NaN THEN Null ELSE s[i].quantity)]]

JSONParse(str) == str.v

\* what the fast-tier read of the first effect yields: the parsed items, or
\* nothing (items stays []) when the slot is absent or does not parse
Load(str) == IF str.k = "json" THEN JSONParse(str) ELSE <<>>

\* ------------------------------------------------- IndexedDB object store
\* The store is keyed by id (keyPath: 'id'); getAll returns it in key order.
RECURSIVE StoreOf(_)
StoreOf(s) ==
  IF s = <<>> THEN <<>>
  ELSE LET m == CHOOSE i \in DOMAIN s : \A j \in DOMAIN s : s[i].id <= s[j].id
           rest == [k \in 1..(Len(s) - 1) |-> IF k < m THEN s[k] ELSE s[k + 1]]
       IN <<s[m]>> \o StoreOf(rest)

DistinctIds(s) == \A i, j \in DOMAIN s : i # j => s[i].id # s[j].id

\* store.clear() followed by store.add(item) for each item: add raises
\* ConstraintError on a key already present, which aborts the transaction
PutAll(store, newItems) ==
  IF DistinctIds(newItems) THEN StoreOf(newItems) ELSE store

\* store.put(item): insert or overwrite by key
Put(store, item) == StoreOf(Append(Without(store, item.id), item))

\* store.delete(id)
Delete(store, id) == Without(store, id)

\* ------------------------------------------------- what the tiers may hold at start
InitItems == {Item(id, q) : id \in Ids, q \in 1..MaxInitQty}

InitSnaps ==
  {s \in UNION {[1..n -> InitItems] : n \in 0..MaxId} : DistinctIds(s)}

InitStores == {s \in InitSnaps : s = StoreOf(s)}

VARIABLES
  items,          \* useState items, per context
  rItems,         \* items as closed over by the handlers of the last render
  dirty,          \* a state setter was called since the last render
  loading,        \* useState loading
  dbRef,          \* dbRef.current (hybrid) / useState db (IndexedDB): handle present
  rDb,            \* db as closed over by the handlers of the last render (IndexedDB)
  phase,          \* where the init effect of the context stands
  ls,             \* localStorage slot STORAGE_KEY, shared by the contexts
  idb,            \* the object store 'cart', shared by the contexts
  dbAvail,        \* whether indexedDB.open succeeds
  gone,           \* React has removed the provider from the tree (its effect
                  \* cleanups have run), per context
  txq,            \* IndexedDB transactions created and not yet run, in creation order
  timers,         \* pending setTimeout callbacks of syncToIndexedDB, per context
  syncTimeoutRef, \* syncTimeoutRef.current: null, a pending timer, a timer that fired
  inbox,          \* message events queued for the listening channel of a context
  ops,            \* number of Cart API calls made so far
  burst,          \* history: hybrid mutations since the last timer of the context fired
  folded,         \* history: burst at the moment the last timer fired
  added,          \* history: addItem calls of the IndexedDB provider after its cold
                  \* start, per context and id, counted from a call that found the
                  \* snapshot without the id
  failed          \* history: an IndexedDB request has failed

vars == <<items, rItems, dirty, loading, dbRef, rDb, phase, ls, idb, dbAvail, gone, txq,
          timers, syncTimeoutRef, inbox, ops, burst, folded, added, failed>>

\* A transaction and what its continuation needs: before is the snapshot the
\* call found (history), existed whether the call's closure held the id.
Tx(c, op, payload, id, existed, before) ==
  [ctx |-> c, op |-> op, items |-> payload, id |-> id, existed |-> existed,
   before |-> before]

\* { type: 'CART_UPDATED', items? }; from is the publishing context (history)
Msg(c, has, payload) ==
  [type |-> "CART_UPDATED", from |-> c, has |-> has, items |-> payload]

\* the provider is in the tree
Mounted(c) == phase[c] # "unmounted" /\ ~gone[c]

\* the context of the one-tab specifications
OneTab == {1}

InitState(lsSet, idbSet, availSet) ==
  /\ items = [c \in Ctx |-> <<>>]
  /\ rItems = [c \in Ctx |-> <<>>]
  /\ dirty = [c \in Ctx |-> FALSE]
  /\ loading = [c \in Ctx |-> TRUE]
  /\ dbRef = [c \in Ctx |-> FALSE]
  /\ rDb = [c \in Ctx |-> FALSE]
  /\ phase = [c \in Ctx |-> "unmounted"]
  /\ ls \in lsSet
  /\ idb \in idbSet
  /\ dbAvail \in availSet
  /\ gone = [c \in Ctx |-> FALSE]
  /\ txq = <<>>
  /\ timers = [c \in Ctx |-> <<>>]
  /\ syncTimeoutRef = [c \in Ctx |-> "null"]
  /\ inbox = [c \in Ctx |-> <<>>]
  /\ ops = 0
  /\ burst = [c \in Ctx |-> 0]
  /\ folded = [c \in Ctx |-> 0]
  /\ added = [c \in Ctx |-> [id \in Ids |-> 0]]
  /\ failed = FALSE

\* channel.postMessage: a message event is queued for every other BroadcastChannel
\* object of that name; the listening channel of the publishing context is one.
Post(box, m) ==
  [d \in Ctx |-> IF Mounted(d) THEN Append(box[d], m) ELSE box[d]]

\* ======================================================== hybrid (App.jsx)

InitHybrid ==
  InitState({LsAbsent, LsMalformed} \cup {JSONStringify(s) : s \in InitSnaps},
            InitStores, BOOLEAN)

\* The three effects of the first commit: the localStorage read, init() up to
\* its await, and the channel subscription.
Mount(c) ==
  /\ phase[c] = "unmounted"
  /\ phase' = [phase EXCEPT ![c] = "opening"]
  /\ IF ls.k = "json"
     THEN /\ items' = [items EXCEPT ![c] = JSONParse(ls)]
          /\ dirty' = [dirty EXCEPT ![c] = TRUE]
     ELSE UNCHANGED <<items, dirty>>
  /\ UNCHANGED <<rItems, loading, dbRef, rDb, ls, idb, dbAvail, gone, txq, timers,
                 syncTimeoutRef, inbox, ops, burst, folded, added, failed>>

\* await initDB() resolved: dbRef.current = db, then getAll in a readonly transaction
InitDBResolve(c) ==
  /\ phase[c] = "opening"
  /\ dbAvail
  /\ dbRef' = [dbRef EXCEPT ![c] = TRUE]
  /\ txq' = Append(txq, Tx(c, "getAll", <<>>, 0, FALSE, <<>>))
  /\ phase' = [phase EXCEPT ![c] = "reading"]
  /\ UNCHANGED <<items, rItems, dirty, loading, rDb, ls, idb, dbAvail, gone, timers,
                 syncTimeoutRef, inbox, ops, burst, folded, added, failed>>

\* mutant: the catch block does not call setLoading(false)
InitDBRejectKeepsLoading(c) ==
  /\ phase[c] = "opening"
  /\ ~dbAvail
  /\ phase' = [phase EXCEPT ![c] = "failed"]
  /\ UNCHANGED <<items, rItems, dirty, loading, dbRef, rDb, ls, idb, dbAvail, gone, txq,
                 timers, syncTimeoutRef, inbox, ops, burst, folded, added, failed>>

\* await initDB() rejected: the catch block
InitDBReject(c) ==
  /\ phase[c] = "opening"
  /\ ~dbAvail
  /\ loading' = [loading EXCEPT ![c] = FALSE]
  /\ phase' = [phase EXCEPT ![c] = "failed"]
  /\ UNCHANGED <<items, rItems, dirty, dbRef, rDb, ls, idb, dbAvail, gone, txq, timers,
                 syncTimeoutRef, inbox, ops, burst, folded, added, failed>>

\* mutant: the durable result is not mirrored into the fast tier
InitReadSuccessNoMirror(c, result) ==
  /\ IF Len(result) > 0 /\ ~gone[c]
     THEN /\ items' = [items EXCEPT ![c] = result]
          /\ dirty' = [dirty EXCEPT ![c] = TRUE]
     ELSE UNCHANGED <<items, dirty>>
  /\ UNCHANGED ls
  /\ loading' = [loading EXCEPT ![c] = gone[c] /\ @]
  /\ phase' = [phase EXCEPT ![c] = "loaded"]

\* request.onsuccess of the cold-start getAll; the state setters of a provider
\* that React has removed do nothing
InitReadSuccess(c, result) ==
  /\ IF Len(result) > 0 /\ ~gone[c]
     THEN /\ items' = [items EXCEPT ![c] = result]
          /\ dirty' = [dirty EXCEPT ![c] = TRUE]
     ELSE UNCHANGED <<items, dirty>>
  /\ ls' = IF Len(result) > 0 THEN JSONStringify(result) ELSE ls
  /\ loading' = [loading EXCEPT ![c] = gone[c] /\ @]
  /\ phase' = [phase EXCEPT ![c] = "loaded"]

\* The transaction at the head of the queue runs and its requests call back.
\* A request may fail; the cold-start getAll has no onerror handler, the
\* debounced write logs the error, clearCart does not look at the outcome.
TxStep ==
  /\ txq # <<>>
  /\ LET t == Head(txq) IN
     /\ t.op \in {"getAll", "putAll", "clear"}
     /\ txq' = Tail(txq)
     /\ \E ok \in BOOLEAN :
        /\ failed' = (failed \/ ~ok)
        /\ CASE t.op = "getAll" ->
                  /\ IF ok
                     THEN InitReadSuccess(t.ctx, idb)
                     ELSE /\ phase' = [phase EXCEPT ![t.ctx] = "readFailed"]
                          /\ UNCHANGED <<items, dirty, ls, loading>>
                  /\ UNCHANGED idb
             [] t.op = "putAll" ->
                  /\ idb' = IF ok THEN PutAll(idb, t.items) ELSE idb
                  /\ UNCHANGED <<items, dirty, ls, loading, phase>>
             [] t.op = "clear" ->
                  /\ idb' = IF ok THEN <<>> ELSE idb
                  /\ UNCHANGED <<items, dirty, ls, loading, phase>>
  /\ UNCHANGED <<rItems, dbRef, rDb, dbAvail, gone, timers, syncTimeoutRef, inbox, ops,
                 burst, folded, added>>

\* notifyOtherTabs(newItems)
NotifyOtherTabs(c, newItems) == Post(inbox, Msg(c, TRUE, newItems))

\* mutant: the pending timer is not cleared
SyncToIndexedDBNoClear(c, newItems) == Append(timers[c], newItems)

\* syncToIndexedDB up to setTimeout: the pending timers of the context afterwards.
\* syncTimeoutRef.current designates the timer created last.
SyncToIndexedDB(c, newItems) ==
  LET kept == IF syncTimeoutRef[c] = "pending"
              THEN SubSeq(timers[c], 1, Len(timers[c]) - 1)
              ELSE timers[c]
  IN Append(kept, newItems)

\* updateStorage(newItems)
UpdateStorage(c, newItems) ==
  /\ ls' = JSONStringify(newItems)
  /\ timers' = [timers EXCEPT ![c] = SyncToIndexedDB(c, newItems)]
  /\ syncTimeoutRef' = [syncTimeoutRef EXCEPT ![c] = "pending"]
  /\ inbox' = NotifyOtherTabs(c, newItems)

\* setItems(prev => { ...; updateStorage(newItems); return newItems })
\* (with items undefined the updater throws, as the next render does)
Mutate(c, newItems) ==
  /\ items[c] # Undefined
  /\ items' = [items EXCEPT ![c] = newItems]
  /\ dirty' = [dirty EXCEPT ![c] = TRUE]
  /\ UpdateStorage(c, newItems)
  /\ ops' = ops + 1
  /\ burst' = [burst EXCEPT ![c] = @ + 1]
  /\ UNCHANGED <<rItems, loading, dbRef, rDb, phase, idb, dbAvail, gone, txq, folded,
                 added, failed>>

\* a call that returns before it touches anything
Return ==
  /\ ops' = ops + 1
  /\ UNCHANGED <<items, rItems, dirty, loading, dbRef, rDb, phase, ls, idb, dbAvail, gone,
                 txq, timers, syncTimeoutRef, inbox, burst, folded, added, failed>>

AddItem(c, id) ==
  /\ Mounted(c)
  /\ ops < MaxOps
  /\ Mutate(c, AddTo(items[c], id))

\* mutant: a quantity below 1 removes the item
UpdateQuantityRemovesBelowOne(c, id, quantity) ==
  /\ Mounted(c)
  /\ ops < MaxOps
  /\ IF LessThan(quantity, 1)
     THEN Mutate(c, Without(items[c], id))
     ELSE Mutate(c, SetQty(items[c], id, quantity))

UpdateQuantity(c, id, quantity) ==
  /\ Mounted(c)
  /\ ops < MaxOps
  /\ IF LessThan(quantity, 1)
     THEN Return
     ELSE Mutate(c, SetQty(items[c], id, quantity))

RemoveItem(c, id) ==
  /\ Mounted(c)
  /\ ops < MaxOps
  /\ Mutate(c, Without(items[c], id))

\* mutant: clearCart goes through updateStorage like the other mutations
ClearCartDebounced(c) ==
  /\ Mounted(c)
  /\ ops < MaxOps
  /\ Mutate(c, <<>>)

ClearCart(c) ==
  /\ Mounted(c)
  /\ ops < MaxOps
  /\ items' = [items EXCEPT ![c] = <<>>]
  /\ dirty' = [dirty EXCEPT ![c] = TRUE]
  /\ ls' = LsAbsent
  /\ txq' = IF dbRef[c]
            THEN Append(txq, Tx(c, "clear", <<>>, 0, FALSE, <<>>))
            ELSE txq
  /\ inbox' = NotifyOtherTabs(c, <<>>)
  /\ ops' = ops + 1
  /\ UNCHANGED <<rItems, loading, dbRef, rDb, phase, idb, dbAvail, gone, timers,
                 syncTimeoutRef, burst, folded, added, failed>>

\* The setTimeout callback of syncToIndexedDB.  All timers of a context have the
\* same delay, so the oldest fires first.
TimerFire(c) ==
  /\ timers[c] # <<>>
  /\ timers' = [timers EXCEPT ![c] = Tail(@)]
  /\ syncTimeoutRef' =
       [syncTimeoutRef EXCEPT
          ![c] = IF @ = "pending" /\ Len(timers[c]) = 1 THEN "fired" ELSE @]
  /\ txq' = IF dbRef[c]
            THEN Append(txq, Tx(c, "putAll", Head(timers[c]), 0, FALSE, <<>>))
            ELSE txq
  /\ folded' = [folded EXCEPT ![c] = burst[c]]
  /\ burst' = [burst EXCEPT ![c] = 0]
  /\ UNCHANGED <<items, rItems, dirty, loading, dbRef, rDb, phase, ls, idb, dbAvail, gone,
                 inbox, ops, added, failed>>

\* handleMessage of the channel effect: items is the value of the render that
\* subscribed the handler.  For a message without items event.data.items is
\* undefined: JSON.stringify(undefined) is undefined, which no string equals.
HandleMessage(c) ==
  /\ inbox[c] # <<>>
  /\ inbox' = [inbox EXCEPT ![c] = Tail(@)]
  /\ LET data == Head(inbox[c]) IN
     IF ~data.has \/ JSONStringify(rItems[c]) # JSONStringify(data.items)
     THEN /\ items' = [items EXCEPT ![c] = IF data.has THEN data.items ELSE Undefined]
          /\ dirty' = [dirty EXCEPT ![c] = TRUE]
     ELSE UNCHANGED <<items, dirty>>
  /\ UNCHANGED <<rItems, loading, dbRef, rDb, phase, ls, idb, dbAvail, gone, txq, timers,
                 syncTimeoutRef, ops, burst, folded, added, failed>>

\* mutant: the cleanup of the init effect does not clear the pending timer
RemovedKeepsTimer(c) ==
  /\ gone' = [gone EXCEPT ![c] = TRUE]
  /\ inbox' = [inbox EXCEPT ![c] = <<>>]
  /\ UNCHANGED timers

\* React removes the provider from the tree and runs the cleanups of its
\* effects: clearTimeout(syncTimeoutRef.current) and channel.close()
Removed(c) ==
  /\ gone' = [gone EXCEPT ![c] = TRUE]
  /\ inbox' = [inbox EXCEPT ![c] = <<>>]
  /\ timers' = [timers EXCEPT
                  ![c] = IF syncTimeoutRef[c] = "pending"
                         THEN SubSeq(@, 1, Len(@) - 1)
                         ELSE @]

\* A render after setItems: the channel effect ([items]) cleans up, which closes
\* the old channel (events still queued for it are dropped), and subscribes a
\* handler that closes over the new items.  With items undefined the render
\* throws in items.reduce; no error boundary catches it and React removes the
\* tree.
Render(c) ==
  /\ dirty[c]
  /\ ~gone[c]
  /\ dirty' = [dirty EXCEPT ![c] = FALSE]
  /\ IF items[c] = Undefined
     THEN /\ Removed(c)
          /\ UNCHANGED rItems
     ELSE /\ rItems' = [rItems EXCEPT ![c] = items[c]]
          /\ inbox' = [inbox EXCEPT ![c] = <<>>]
          /\ UNCHANGED <<timers, gone>>
  /\ UNCHANGED <<items, loading, dbRef, rDb, phase, ls, idb, dbAvail, txq,
                 syncTimeoutRef, ops, burst, folded, added, failed>>

HybridStep(c) ==
  \/ Mount(c)
  \/ InitDBResolve(c)
  \/ InitDBReject(c)
  \/ \E id \in Ids : AddItem(c, id)
  \/ \E id \in Ids, q \in QtyArgs : UpdateQuantity(c, id, q)
  \/ \E id \in Ids : RemoveItem(c, id)
  \/ ClearCart(c)
  \/ TimerFire(c)
  \/ HandleMessage(c)
  \/ Render(c)

\* one tab
NextHybrid == TxStep \/ \E c \in OneTab : HybridStep(c)

SpecHybrid == InitHybrid /\ [][NextHybrid]_vars

\* The event loop runs every task that is queued: the settled open request and
\* the queued transaction.
FairHybrid ==
  /\ SpecHybrid
  /\ \A c \in OneTab : WF_vars(InitDBResolve(c)) /\ WF_vars(InitDBReject(c))
  /\ WF_vars(TxStep)

\* addItem, updateQuantity (quantity not below 1) or removeItem when the fast
\* tier is full: localStorage.setItem throws QuotaExceededError in updateStorage,
\* nothing catches it, the exception leaves the updater of setItems before it
\* returns, before syncToIndexedDB and before notifyOtherTabs.  The render of
\* that update throws with it and React removes the tree.
QuotaExceeded(c) ==
  /\ Mounted(c)
  /\ ops < MaxOps
  /\ items[c] # Undefined
  /\ Removed(c)
  /\ ops' = ops + 1
  /\ UNCHANGED <<items, rItems, dirty, loading, dbRef, rDb, phase, ls, idb, dbAvail,
                 txq, syncTimeoutRef, burst, folded, added, failed>>

NextQuota == NextHybrid \/ \E c \in OneTab : QuotaExceeded(c)

\* one tab whose fast tier may refuse a write
SpecQuota == InitHybrid /\ [][NextQuota]_vars

\* sibling tabs on empty storage tiers
InitTabs == InitState({LsAbsent}, {<<>>}, BOOLEAN)

NextTabs == TxStep \/ \E c \in Ctx : HybridStep(c)

SpecTabs == InitTabs /\ [][NextTabs]_vars

\* A message event for the listening channel that no modelled context posted:
\* { type: 'CART_UPDATED' } without items, the notification shape of part_000,
\* posted on 'hybrid-cart' by another script of the origin.
BareMessage(c) ==
  /\ Mounted(c)
  /\ Len(inbox[c]) < MaxOps
  /\ inbox' = [inbox EXCEPT ![c] = Append(@, Msg(0, FALSE, <<>>))]
  /\ UNCHANGED <<items, rItems, dirty, loading, dbRef, rDb, phase, ls, idb, dbAvail, gone,
                 txq, timers, syncTimeoutRef, ops, burst, folded, added, failed>>

NextShapes == NextHybrid \/ \E c \in OneTab : BareMessage(c)

\* one tab that is sent both notification shapes
SpecShapes == InitHybrid /\ [][NextShapes]_vars

\* Teardown: the provider is unmounted (the root is unmounted or replaced).
Unmount(c) ==
  /\ Mounted(c)
  /\ Removed(c)
  /\ UNCHANGED <<items, rItems, dirty, loading, dbRef, rDb, phase, ls, idb, dbAvail,
                 txq, syncTimeoutRef, ops, burst, folded, added, failed>>

NextTeardown == NextTabs \/ \E c \in Ctx : Unmount(c)

\* sibling tabs that may be torn down
SpecTeardown == InitTabs /\ [][NextTeardown]_vars

\* ================================================ IndexedDB (part_000)
\* The handlers are created by each render and close over items and db.

InitIDB == InitState({LsAbsent}, InitStores, BOOLEAN)

\* The effects of the first commit: initDB() is called, the channel subscribed.
MountIDB(c) ==
  /\ phase[c] = "unmounted"
  /\ phase' = [phase EXCEPT ![c] = "opening"]
  /\ UNCHANGED <<items, rItems, dirty, loading, dbRef, rDb, ls, idb, dbAvail, gone, txq,
                 timers, syncTimeoutRef, inbox, ops, burst, folded, added, failed>>

\* initDB().then: setDb(database), then getAll in a readonly transaction
InitResolveIDB(c) ==
  /\ phase[c] = "opening"
  /\ dbAvail
  /\ dbRef' = [dbRef EXCEPT ![c] = TRUE]
  /\ dirty' = [dirty EXCEPT ![c] = TRUE]
  /\ txq' = Append(txq, Tx(c, "getAllInit", <<>>, 0, FALSE, <<>>))
  /\ phase' = [phase EXCEPT ![c] = "reading"]
  /\ UNCHANGED <<items, rItems, loading, rDb, ls, idb, dbAvail, gone, timers,
                 syncTimeoutRef, inbox, ops, burst, folded, added, failed>>

\* initDB().catch
InitRejectIDB(c) ==
  /\ phase[c] = "opening"
  /\ ~dbAvail
  /\ loading' = [loading EXCEPT ![c] = FALSE]
  /\ phase' = [phase EXCEPT ![c] = "failed"]
  /\ UNCHANGED <<items, rItems, dirty, dbRef, rDb, ls, idb, dbAvail, gone, txq, timers,
                 syncTimeoutRef, inbox, ops, burst, folded, added, failed>>

\* notifyOtherTabs(): the message carries no items
NotifyOtherTabsIDB(c) == Post(inbox, Msg(c, FALSE, <<>>))

\* what the request of a transaction does to the store
StoreAfter(t) ==
  CASE t.op \in {"putAdd", "putUpdate"} -> Put(idb, t.items[1])
    [] t.op = "delete" -> Delete(idb, t.id)
    [] t.op = "clearAll" -> <<>>
    [] OTHER -> idb

\* the setItems of the catch block of the call that created the transaction
Rollback(t, prev) ==
  CASE t.op = "putAdd" -> IF t.existed THEN prev ELSE Without(prev, t.id)
    [] t.op = "putUpdate" ->
         [i \in DOMAIN prev |->
            IF prev[i].id = t.id THEN Item(prev[i].id, prev[i].quantity) ELSE prev[i]]
    [] t.op = "delete" -> IF t.existed THEN Append(prev, t.items[1]) ELSE prev
    [] t.op = "clearAll" -> t.items
    [] OTHER -> prev

\* The transaction at the head of the queue runs and its request succeeds:
\* onsuccess of a getAll, or the rest of the try block after the await.
TxSuccessIDB ==
  /\ txq # <<>>
  /\ LET t == Head(txq)
         c == t.ctx
     IN
     /\ t.op \in {"getAllInit", "getAllMsg", "putAdd", "putUpdate", "delete", "clearAll"}
     /\ txq' = Tail(txq)
     /\ idb' = StoreAfter(t)
     /\ IF t.op \in {"getAllInit", "getAllMsg"}
        THEN /\ items' = [items EXCEPT ![c] = idb]
             /\ dirty' = [dirty EXCEPT ![c] = TRUE]
             /\ UNCHANGED inbox
        ELSE /\ inbox' = NotifyOtherTabsIDB(c)
             /\ UNCHANGED <<items, dirty>>
     /\ IF t.op = "getAllInit"
        THEN /\ loading' = [loading EXCEPT ![c] = FALSE]
             /\ phase' = [phase EXCEPT ![c] = "loaded"]
        ELSE UNCHANGED <<loading, phase>>
  /\ UNCHANGED <<rItems, dbRef, rDb, ls, dbAvail, gone, timers, syncTimeoutRef, ops,
                 burst, folded, added, failed>>

\* The request fails: the getAll requests have no onerror handler, the
\* mutations run their catch block.
TxFailIDB ==
  /\ txq # <<>>
  /\ LET t == Head(txq)
         c == t.ctx
     IN
     /\ t.op \in {"getAllInit", "getAllMsg", "putAdd", "putUpdate", "delete", "clearAll"}
     /\ txq' = Tail(txq)
     /\ IF t.op \in {"getAllInit", "getAllMsg"}
        THEN UNCHANGED <<items, dirty>>
        ELSE /\ items' = [items EXCEPT ![c] = Rollback(t, items[c])]
             /\ dirty' = [dirty EXCEPT ![c] = TRUE]
     /\ phase' = IF t.op = "getAllInit"
                 THEN [phase EXCEPT ![c] = "readFailed"]
                 ELSE phase
  /\ failed' = TRUE
  /\ UNCHANGED <<rItems, loading, dbRef, rDb, ls, idb, dbAvail, gone, timers,
                 syncTimeoutRef, inbox, ops, burst, folded, added>>

\* the optimistic setItems of a call and the transaction it creates
CallIDB(c, newItems, t) ==
  /\ items' = [items EXCEPT ![c] = newItems]
  /\ dirty' = [dirty EXCEPT ![c] = TRUE]
  /\ txq' = Append(txq, t)
  /\ ops' = ops + 1
  /\ UNCHANGED <<rItems, loading, dbRef, rDb, phase, ls, idb, dbAvail, gone, timers,
                 syncTimeoutRef, inbox, burst, folded, failed>>

\* addItem: existingItem and newItem come from the items of the closure, the
\* updater is applied to the current state
AddItemIDB(c, id) ==
  /\ Mounted(c)
  /\ ops < MaxOps
  /\ IF ~rDb[c]
     THEN Return
     ELSE LET i == Find(rItems[c], id)
              existingItem == i # 0
              newItem == IF existingItem
                         THEN Item(id, PlusOne(rItems[c][i].quantity))
                         ELSE Item(id, 1)
              prev == items[c]
              newItems == IF existingItem
                          THEN [k \in DOMAIN prev |->
                                  IF prev[k].id = id THEN newItem ELSE prev[k]]
                          ELSE Append(prev, newItem)
          IN /\ CallIDB(c, newItems,
                        Tx(c, "putAdd", <<newItem>>, id, existingItem, prev))
             /\ added' = [added EXCEPT
                            ![c][id] = IF phase[c] # "loaded" \/ (@ = 0 /\ Has(prev, id))
                                       THEN @ ELSE @ + 1]

UpdateQuantityIDB(c, id, quantity) ==
  /\ Mounted(c)
  /\ ops < MaxOps
  /\ IF ~rDb[c] \/ LessThan(quantity, 1) \/ ~Has(rItems[c], id)
     THEN Return
     ELSE LET updatedItem == Item(id, quantity)
              prev == items[c]
              newItems == [k \in DOMAIN prev |->
                             IF prev[k].id = id THEN updatedItem ELSE prev[k]]
          IN /\ CallIDB(c, newItems,
                        Tx(c, "putUpdate", <<updatedItem>>, id, TRUE, prev))
             /\ UNCHANGED added

RemoveItemIDB(c, id) ==
  /\ Mounted(c)
  /\ ops < MaxOps
  /\ IF ~rDb[c]
     THEN Return
     ELSE LET i == Find(rItems[c], id)
              removedItem == IF i # 0 THEN <<rItems[c][i]>> ELSE <<>>
          IN /\ CallIDB(c, Without(items[c], id),
                        Tx(c, "delete", removedItem, id, i # 0, items[c]))
             /\ UNCHANGED added

ClearCartIDB(c) ==
  /\ Mounted(c)
  /\ ops < MaxOps
  /\ IF ~rDb[c]
     THEN Return
     ELSE /\ CallIDB(c, <<>>, Tx(c, "clearAll", rItems[c], 0, FALSE, items[c]))
          /\ UNCHANGED added

\* handleMessage of the channel effect ([db]): db is the value of the render
\* that subscribed the handler
HandleMessageIDB(c) ==
  /\ inbox[c] # <<>>
  /\ inbox' = [inbox EXCEPT ![c] = Tail(@)]
  /\ txq' = IF rDb[c]
            THEN Append(txq, Tx(c, "getAllMsg", <<>>, 0, FALSE, <<>>))
            ELSE txq
  /\ UNCHANGED <<items, rItems, dirty, loading, dbRef, rDb, phase, ls, idb, dbAvail, gone,
                 timers, syncTimeoutRef, ops, burst, folded, added, failed>>

\* A render: the handlers now close over the current items and db; when db
\* changed, the channel effect closes the old channel and subscribes anew.
RenderIDB(c) ==
  /\ dirty[c]
  /\ dirty' = [dirty EXCEPT ![c] = FALSE]
  /\ rItems' = [rItems EXCEPT ![c] = items[c]]
  /\ rDb' = [rDb EXCEPT ![c] = dbRef[c]]
  /\ inbox' = IF rDb[c] # dbRef[c] THEN [inbox EXCEPT ![c] = <<>>] ELSE inbox
  /\ UNCHANGED <<items, loading, dbRef, phase, ls, idb, dbAvail, gone, txq, timers,
                 syncTimeoutRef, ops, burst, folded, added, failed>>

StepIDB(c) ==
  \/ MountIDB(c)
  \/ InitResolveIDB(c)
  \/ InitRejectIDB(c)
  \/ \E id \in Ids : AddItemIDB(c, id)
  \/ \E id \in Ids, q \in QtyArgs : UpdateQuantityIDB(c, id, q)
  \/ \E id \in Ids : RemoveItemIDB(c, id)
  \/ ClearCartIDB(c)
  \/ HandleMessageIDB(c)
  \/ RenderIDB(c)

NextIDB == TxSuccessIDB \/ TxFailIDB \/ \E c \in OneTab : StepIDB(c)

SpecIDB == InitIDB /\ [][NextIDB]_vars

\* ================================================ context only (part_001)
\* React state and nothing else: no effect, no storage, no channel.  The
\* handlers compute from prev inside the updater.

InitContext == InitState({LsAbsent}, {<<>>}, {FALSE})

\* setItems(updater)
SetItemsCtx(c, newItems) ==
  /\ items' = [items EXCEPT ![c] = newItems]
  /\ dirty' = [dirty EXCEPT ![c] = TRUE]
  /\ ops' = ops + 1
  /\ UNCHANGED <<rItems, loading, dbRef, rDb, phase, ls, idb, dbAvail, gone, txq, timers,
                 syncTimeoutRef, inbox, burst, folded, added, failed>>

AddItemCtx(c, id) ==
  /\ ops < MaxCalls
  /\ SetItemsCtx(c, AddTo(items[c], id))

UpdateQuantityCtx(c, id, quantity) ==
  /\ ops < MaxCalls
  /\ IF LessThan(quantity, 1)
     THEN Return
     ELSE SetItemsCtx(c, SetQty(items[c], id, quantity))

\* mutant: the remaining items come out in reverse order
RemoveItemCtxReverses(c, id) ==
  /\ ops < MaxCalls
  /\ SetItemsCtx(c, LET r == Without(items[c], id)
                    IN [k \in DOMAIN r |-> r[Len(r) + 1 - k]])

RemoveItemCtx(c, id) ==
  /\ ops < MaxCalls
  /\ SetItemsCtx(c, Without(items[c], id))

\* a render: the provider value (items, total) is computed from the state
RenderCtx(c) ==
  /\ dirty[c]
  /\ dirty' = [dirty EXCEPT ![c] = FALSE]
  /\ rItems' = [rItems EXCEPT ![c] = items[c]]
  /\ UNCHANGED <<items, loading, dbRef, rDb, phase, ls, idb, dbAvail, gone, txq, timers,
                 syncTimeoutRef, inbox, ops, burst, folded, added, failed>>

StepCtx(c) ==
  \/ \E id \in Products : AddItemCtx(c, id)
  \/ \E id \in Products, q \in QtyArgs : UpdateQuantityCtx(c, id, q)
  \/ \E id \in Products : RemoveItemCtx(c, id)
  \/ RenderCtx(c)

NextContext == \E c \in OneTab : StepCtx(c)

SpecContext == InitContext /\ [][NextContext]_vars

Spec == SpecHybrid

\* ================================================================ claims

\* the LineItems of a snapshot that have the id
OfId(s, id) == SelectSeq(s, LAMBDA it : it.id = id)

\* C1: n addItem calls with one id, starting from a snapshot without the id,
\* yield exactly one LineItem of that id, with quantity n (all calls so far were
\* such addItem calls of the context and no request failed).
C1_AddItemCountsCalls ==
  \A c \in Ctx, id \in Ids :
    (added[c][id] >= 1 /\ ops = added[c][id] /\ ~failed)
      => OfId(items[c], id) = <<Item(id, added[c][id])>>

\* C2: when the durable write that persists an addItem fails, the snapshot is
\* restored to the one that held before that addItem, and so is total()
\* (nothing but that addItem has touched the snapshot in between).
C2_AddRollbackRestores ==
  [][(/\ TxFailIDB
      /\ Head(txq).op = "putAdd"
      /\ items[Head(txq).ctx] = AddTo(Head(txq).before, Head(txq).id))
       => /\ items'[Head(txq).ctx] = Head(txq).before
          /\ Total(items'[Head(txq).ctx]) = Total(Head(txq).before)]_vars

\* the debounced writes among the queued transactions
PutAlls(q) == SelectSeq(q, LAMBDA t : t.op = "putAll")

\* C3: every mutation leaves exactly one pending debounced write, that of its
\* own snapshot; the pending write goes away only by firing, and with the
\* store open the firing creates exactly one write, of that snapshot; nothing
\* else creates a debounced write.  So k mutations before the timer fires
\* cause one durable write, of the snapshot after the last of them.
C3_Batching ==
  [][/\ \A c \in Ctx :
          /\ burst'[c] > burst[c] => timers'[c] = <<items'[c]>>
          /\ (burst'[c] <= burst[c] /\ timers'[c] # timers[c]) =>
                /\ timers'[c] = <<>>
                /\ Len(timers[c]) = 1
                /\ dbRef[c] =>
                     txq' = Append(txq, Tx(c, "putAll", timers[c][1], 0, FALSE, <<>>))
     /\ PutAlls(txq') # PutAlls(txq) /\ Len(txq') >= Len(txq) =>
          \E c \in Ctx : timers[c] # <<>> /\ timers'[c] = <<>>]_vars

\* two mutations were folded into the one write that is queued
C3_Witness ==
  \E c \in Ctx :
    /\ folded[c] >= 2
    /\ dbRef[c]
    /\ timers[c] = <<>>
    /\ PutAlls(txq) = <<Tx(c, "putAll", items[c], 0, FALSE, <<>>)>>

\* C4: the snapshot a mutation publishes has, at the moment of publication,
\* already been written to the durable tier.
C4_NotifyAfterDurableWrite ==
  [][\A c \in Ctx :
       (burst'[c] > burst[c] /\ Len(inbox'[c]) = Len(inbox[c]) + 1)
         => idb' = StoreOf(inbox'[c][Len(inbox'[c])].items)]_vars

\* C5: after handleMessage has handled a message that carries items, the
\* snapshot is value-equal to the received items (stated for a message of a
\* sibling, received by a context that has made no mutation of its own).
C5_ReconcileAgainstCurrent ==
  [][\A c \in Ctx :
       (/\ HandleMessage(c)
        /\ Head(inbox[c]).has
        /\ Head(inbox[c]).from # c
        /\ syncTimeoutRef[c] = "null")
         => JSONStringify(items'[c]) = JSONStringify(Head(inbox[c]).items)]_vars

\* the step in which the cold-start read of a context completes successfully
ReadCompletes(c) == phase[c] = "reading" /\ phase'[c] = "loaded"

\* C6 as claimed: for every durable result, empty or not, the snapshot and the
\* fast tier become the durable result when the cold-start read completes.
C6_DurableResultWins ==
  [][\A c \in Ctx :
       ReadCompletes(c) =>
         /\ items'[c] = idb
         /\ Load(ls') = idb
         /\ ~loading'[c]]_vars

\* C6 amended: a non-empty durable result replaces the snapshot and is
\* mirrored into the fast tier; an empty one leaves the snapshot and the fast
\* tier as they are; in both cases loading becomes false in the same step.
C6_NonEmptyDurableResultWins ==
  [][\A c \in Ctx :
       ReadCompletes(c) =>
         /\ ~loading'[c]
         /\ IF idb # <<>>
            THEN items'[c] = idb /\ ls' = JSONStringify(idb)
            ELSE items'[c] = items[c] /\ ls' = ls]_vars

\* a cold start has completed with a non-empty durable result
C6_Witness ==
  \E c \in Ctx :
    /\ phase[c] = "loaded"
    /\ ops = 0
    /\ idb # <<>>
    /\ items[c] = idb
    /\ ls = JSONStringify(idb)
    /\ ~loading[c]

\* C7: cold start with a non-empty fast tier and a durable store that does not
\* open: the snapshot is the fast-tier snapshot, and loading becomes false.
C7_FastTierOnly ==
  /\ [](\A c \in Ctx :
          (phase[c] = "failed" /\ ops = 0 /\ ls.k = "json" /\ JSONParse(ls) # <<>>)
            => (items[c] = JSONParse(ls) /\ ~loading[c]))
  /\ \A c \in OneTab : (Mounted(c) /\ ~dbAvail) ~> ~loading[c]

C7_Witness ==
  \E c \in Ctx :
    /\ phase[c] = "failed"
    /\ ~dbAvail
    /\ ops = 0
    /\ items[c] # <<>>
    /\ items[c] = JSONParse(ls)
    /\ ~loading[c]

ClearTx(c) == Tx(c, "clear", <<>>, 0, FALSE, <<>>)

\* C8 as claimed: from every state clearCart empties the snapshot, removes the
\* fast-tier entry and issues the clear of the durable tier within the call.
C8_ClearCartClearsBothTiers ==
  [][\A c \in Ctx :
       ClearCart(c) =>
         /\ items'[c] = <<>>
         /\ ls' = LsAbsent
         /\ txq' = Append(txq, ClearTx(c))]_vars

\* C8 amended: the clear of the durable tier is issued within the call when the
\* context holds the database handle, and not at all when it does not; the
\* debounce timer is not involved.
C8_ClearCartImmediate ==
  [][\A c \in Ctx :
       ClearCart(c) =>
         /\ items'[c] = <<>>
         /\ ls' = LsAbsent
         /\ txq' = IF dbRef[c] THEN Append(txq, ClearTx(c)) ELSE txq
         /\ timers' = timers]_vars

\* clearCart has run with the handle present: the clear is queued
C8_Witness ==
  \E c \in Ctx :
    /\ ops >= 1
    /\ items[c] = <<>>
    /\ ls = LsAbsent
    /\ txq # <<>>
    /\ txq[Len(txq)] = ClearTx(c)

\* C9: no two LineItems of a snapshot share an id.
C9_UniqueIds == \A c \in Ctx : DistinctIds(items[c])

\* C10: every LineItem has a quantity that is an integer >= 1.
C10_QuantityAtLeastOne ==
  \A c \in Ctx : \A i \in DOMAIN items[c] : items[c][i].quantity >= 1

\* C11: handleMessage of a context is never invoked with a message that the
\* same context published through notifyOtherTabs.
C11_NoOwnMessage ==
  [][\A c \in Ctx : HandleMessageIDB(c) => Head(inbox[c]).from # c]_vars

\* C12: a context that handles a CART_UPDATED message without items re-reads
\* the durable tier (a getAll is issued) and its snapshot remains a sequence of
\* LineItems.
C12_BareMessageRereads ==
  [][\A c \in Ctx :
       (HandleMessage(c) /\ ~Head(inbox[c]).has)
         => /\ items'[c] # Undefined
            /\ txq' = Append(txq, Tx(c, "getAll", <<>>, 0, FALSE, <<>>))]_vars

\* C13: updateQuantity(id, q) with q < 1 leaves the snapshot as it is, in every
\* state and however often it is called (hybrid implementation).
C13_BelowOneIsNoOp ==
  [][\A c \in Ctx, id \in Ids, q \in QtyArgs :
       (LessThan(q, 1) /\ UpdateQuantity(c, id, q)) => items'[c] = items[c]]_vars

\* C13 for the IndexedDB implementation
C13_BelowOneIsNoOpIDB ==
  [][\A c \in Ctx, id \in Ids, q \in QtyArgs :
       (LessThan(q, 1) /\ UpdateQuantityIDB(c, id, q)) => items'[c] = items[c]]_vars

\* C13 for the context-only implementation
C13_BelowOneIsNoOpCtx ==
  [][\A c \in Ctx, id \in Products, q \in QtyArgs :
       (LessThan(q, 1) /\ UpdateQuantityCtx(c, id, q)) => items'[c] = items[c]]_vars

\* every call so far was an updateQuantity below 1 (nothing was written, cleared
\* or scheduled), and the snapshot loaded from the fast tier is still there
C13_Witness ==
  \E c \in Ctx :
    /\ ops = MaxOps
    /\ phase[c] = "opening"
    /\ syncTimeoutRef[c] = "null"
    /\ ls.k = "json"
    /\ items[c] # <<>>
    /\ items[c] = JSONParse(ls)

\* the positions of s whose item has another id than id
Others(s, id) == {i \in DOMAIN s : s[i].id # id}

\* t holds exactly the items of s with another id, in the order they have in s
KeepsOthers(s, t, id) ==
  /\ Len(t) = Cardinality(Others(s, id))
  /\ \A i \in Others(s, id) :
       t[Cardinality({j \in Others(s, id) : j <= i})] = s[i]

\* C14: removeItem(id) leaves no item of that id and keeps the other items in
\* their order; on a snapshot without the id, as after a first removeItem(id),
\* it changes nothing: removing twice is removing once (context-only
\* implementation).
C14_RemoveIdempotent ==
  [][\A c \in Ctx, id \in Products :
       RemoveItemCtx(c, id) =>
         /\ ~Has(items'[c], id)
         /\ KeepsOthers(items[c], items'[c], id)
         /\ ~Has(items[c], id) => items'[c] = items[c]]_vars

\* C14 for the hybrid implementation
C14_RemoveIdempotentHybrid ==
  [][\A c \in Ctx, id \in Ids :
       RemoveItem(c, id) =>
         /\ ~Has(items'[c], id)
         /\ KeepsOthers(items[c], items'[c], id)
         /\ ~Has(items[c], id) => items'[c] = items[c]]_vars

\* three products were added and rendered, the fourth call removed the middle
\* one: the two that remain are in their order
C14_Witness ==
  \E c \in Ctx :
    /\ ops = 4
    /\ rItems[c] = <<Item(1, 1), Item(2, 1), Item(3, 1)>>
    /\ items[c] = <<Item(1, 1), Item(3, 1)>>

\* C15: once clearCart was the last call (the fast-tier entry is removed) and
\* the durable tier is empty with no clear still queued, a debounced write
\* that a mutation before the clearCart scheduled does not fill it again.
C15_ClearedStaysCleared ==
  [][(/\ TxStep
      /\ Head(txq).op = "putAll"
      /\ ls = LsAbsent
      /\ idb = <<>>
      /\ \A i \in DOMAIN txq : txq[i].op # "clear")
       => idb' = <<>>]_vars

\* C16: in a context whose store opened and was read and whose requests all
\* succeeded, when every call so far was a mutation, the timer has fired, and
\* nothing is pending (no timer, no transaction, no message, no render), the
\* durable tier holds the snapshot.
C16_LastMutationPersisted ==
  \A c \in Ctx :
    (/\ phase[c] = "loaded"
     /\ ~failed
     /\ ops >= 1
     /\ ops = folded[c]
     /\ burst[c] = 0
     /\ timers[c] = <<>>
     /\ txq = <<>>
     /\ inbox[c] = <<>>
     /\ ~dirty[c])
      => idb = StoreOf(items[c])

\* C17: when both contexts are subscribed, each has made a mutation, and
\* nothing is pending in either (no message queued, no render due), the two
\* snapshots are value-equal.
C17_EventuallyEqual ==
  (\A d \in Ctx : Mounted(d) /\ burst[d] >= 1 /\ inbox[d] = <<>> /\ ~dirty[d])
    => \A d, e \in Ctx : JSONStringify(items[d]) = JSONStringify(items[e])

\* C18: when a mutation was made while loading was still true (it has
\* scheduled its write, and the snapshot and the fast tier hold its result),
\* the completion of the cold-start read leaves the snapshot and the fast tier
\* as that mutation left them.
C18_ColdStartKeepsMutation ==
  [][\A c \in Ctx :
       (/\ ReadCompletes(c)
        /\ syncTimeoutRef[c] # "null"
        /\ ls = JSONStringify(items[c]))
         => items'[c] = items[c] /\ ls' = ls]_vars

\* the snapshot the optimistic update of the call behind transaction t gives
Optimistic(t) ==
  CASE t.op = "putUpdate" -> SetQty(t.before, t.id, t.items[1].quantity)
    [] t.op = "delete" -> Without(t.before, t.id)
    [] OTHER -> <<>>

\* C19: when the durable write of an updateQuantity, removeItem or clearCart
\* fails, the snapshot is the one that held before the call, items in their
\* original order (nothing but that call has touched the snapshot in between).
C19_RollbackRestores ==
  [][(/\ TxFailIDB
      /\ Head(txq).op \in {"putUpdate", "delete", "clearAll"}
      /\ Head(txq).op = "putUpdate" => Head(txq).items[1].quantity >= 1
      /\ items[Head(txq).ctx] = Optimistic(Head(txq)))
       => items'[Head(txq).ctx] = Head(txq).before]_vars

\* C20: whatever the durable tier does at initialization, loading eventually
\* becomes false in a mounted context.
C20_ColdStartTerminates ==
  \A c \in OneTab : Mounted(c) ~> ~loading[c]

\* the snapshots a mutation may compute from the snapshot of context c
NewItems(c) ==
  {AddTo(items[c], id) : id \in Ids} \cup {Without(items[c], id) : id \in Ids}
    \cup {SetQty(items[c], id, q) : id \in Ids, q \in {r \in QtyArgs : ~LessThan(r, 1)}}

\* C21: a mutation whose fast-tier write fails still gives the snapshot its new
\* value and leaves the debounced write of that value pending, and the provider
\* stays in the tree (no error left the call).
C21_QuotaExceededNonFatal ==
  [][\A c \in Ctx :
       QuotaExceeded(c) =>
         /\ ~gone'[c]
         /\ \E n \in NewItems(c) : items'[c] = n /\ timers'[c] = <<n>>]_vars

\* C22: updateQuantity and removeItem with an id that the snapshot does not
\* hold change nothing: not the snapshot, not the fast tier, not the pending
\* debounced write, and no notification is published.
C22_AbsentIdIsNoOp ==
  [][\A c \in Ctx, id \in Ids :
       (/\ ~Has(items[c], id)
        /\ RemoveItem(c, id) \/ \E q \in QtyArgs : UpdateQuantity(c, id, q))
         => /\ items'[c] = items[c]
            /\ ls' = ls
            /\ timers'[c] = timers[c]
            /\ syncTimeoutRef'[c] = syncTimeoutRef[c]
            /\ inbox' = inbox]_vars

\* the debounced writes of context c among the queued transactions
PutAllsOf(q, c) == SelectSeq(q, LAMBDA t : t.op = "putAll" /\ t.ctx = c)

\* C23: teardown leaves the context without a pending timer and without a
\* queued message; from then on no timer of the context is pending, no
\* debounced write of the context is started, and no step changes its snapshot.
C23_TeardownDetaches ==
  [][\A c \in Ctx :
       /\ gone'[c] => timers'[c] = <<>> /\ inbox'[c] = <<>>
       /\ gone[c] => /\ items'[c] = items[c]
                     /\ Len(PutAllsOf(txq', c)) <= Len(PutAllsOf(txq, c))]_vars

\* a context was torn down while the timer of its mutation was pending, with
\* the store open; its sibling has made a mutation that it does not follow
C23_Witness ==
  \E c, d \in Ctx :
    /\ gone[c]
    /\ dbRef[c]
    /\ syncTimeoutRef[c] = "pending"
    /\ timers[c] = <<>>
    /\ txq = <<>>
    /\ d # c
    /\ Mounted(d)
    /\ burst[d] >= 1
    /\ inbox[d] = <<>>
    /\ items[d] # items[c]

====
